---------------------------- MODULE Spec2Model ----------------------------
(***************************************************************************)
(* Model of the PDF reporting module core/pdf.py of the football-academy   *)
(* backend: the rating-label helpers, the bilingual renderers, the Arabic  *)
(* font registration, the photo resolution chain and the two report        *)
(* builders build_group_report and build_player_report.                    *)
(*                                                                         *)
(* Python values are tagged records: None, an int, a str, a float (kept as *)
(* a numerator over AvgDen).  An f-string is the sequence of its literal   *)
(* pieces and interpolated values (a "token" sequence).  The layout        *)
(* engine, the storage, the file system and the network are outside the    *)
(* repository: every outcome they can produce is drawn with \E.            *)
(***************************************************************************)
EXTENDS Integers, Sequences, FiniteSets, TLC

VARIABLES
    call,        \* last application of a helper: [fn, arg, out]
    shaping,     \* TRUE iff arabic_reshaper and python-bidi import and work
    registered,  \* pdfmetrics' registry: the set of registered font names
    fontFiles,   \* the file system: candidate index -> "missing"|"corrupt"|"good"
    fontLog,     \* the last _register_arabic_font call: [ret, probed, path, was]
    regTotal,    \* how many times pdfmetrics.registerFont has succeeded
    pc,          \* where the running report build is: "idle", "photo", "path",
                 \* "url", "row", "build", "fallback", "done"
    report,      \* the build under way: [kind, players, idx, font, logo, works]
    photo,       \* the resolution of the current player's photo
    opened,      \* the players whose photo field is open on the storage
    store,       \* the stored entities: the Player rows and the photo blobs
    story,       \* the flowables appended so far
    data,        \* the rows of the summary table so far (group report)
    ev,          \* what _latest_evaluation returned (player report)
    buffer,      \* what has been written to the build's BytesIO buffer
    result       \* what the build gave its caller: [kind, from, bytes]

labelVars == <<call, shaping>>
fontVars == <<registered, fontFiles, fontLog, regTotal>>
reportVars ==
    <<pc, report, photo, opened, store, story, data, ev, buffer, result>>

---------------------------------------------------------------------------
(* Bounds of the model *)

\* ints handed to rating_label range over 1-RatingSpan .. 5+RatingSpan
RatingSpan == 2
\* averages are k/AvgDen, from AvgSpan below 1 to AvgSpan above 5
AvgDen == 4
AvgSpan == 2
\* at most this many candidate font files are present on the file system
MaxFontFiles == 2
\* a group has at most this many players
MaxPlayers == 2
\* a player has at most this many evaluations
MaxEvals == 2
\* evaluated_at and updated_at range over 1..MaxTime
MaxTime == 2

---------------------------------------------------------------------------
(* Python values *)

None == [t |-> "none"]
IntV(n) == [t |-> "int", v |-> n]
StrV(s) == [t |-> "str", v |-> s]
FloatV(k) == [t |-> "float", k |-> k]

Range(s) == {s[i] : i \in DOMAIN s}

\* The em dash the code returns for "unknown" (U+2014), kept in ASCII here.
EmDash == "[em dash]"

Digit == <<"0", "1", "2", "3", "4", "5", "6", "7", "8", "9">>

RECURSIVE NatToStr(_)
NatToStr(n) ==
    IF n < 10 THEN Digit[n + 1] ELSE NatToStr(n \div 10) \o Digit[(n % 10) + 1]

\* str(n) of a Python int
IntToStr(n) == IF n < 0 THEN "-" \o NatToStr(-n) ELSE NatToStr(n)

\* str(value)
PyStr(value) ==
    CASE value.t = "int" -> IntToStr(value.v)
      [] value.t = "str" -> value.v
      [] value.t = "none" -> "None"

\* int(value): [ok |-> TRUE, v |-> n], or [ok |-> FALSE] when it raises
\* (ValueError for a str that is no integer literal, TypeError for None).
PyInt(value) ==
    CASE value.t = "int" -> [ok |-> TRUE, v |-> value.v]
      [] value.t = "str" ->
            IF \E n \in -99..99 : IntToStr(n) = value.v
            THEN [ok |-> TRUE, v |-> CHOOSE n \in -99..99 : IntToStr(n) = value.v]
            ELSE [ok |-> FALSE]
      [] value.t = "none" -> [ok |-> FALSE]

\* round(float(avg)) of avg = k/AvgDen: Python 3 rounds halves to even
PyRound(k) ==
    LET q == k \div AvgDen
        r == k % AvgDen
    IN  IF 2 * r < AvgDen THEN q
        ELSE IF 2 * r > AvgDen THEN q + 1
        ELSE IF q % 2 = 0 THEN q ELSE q + 1

PyMax(a, b) == IF a >= b THEN a ELSE b
PyMin(a, b) == IF a <= b THEN a ELSE b

---------------------------------------------------------------------------
(* Rating label helpers *)

RATING_LABELS ==
    (1 :> "Bad") @@ (2 :> "Not bad") @@ (3 :> "Good") @@ (4 :> "Very Good")
    @@ (5 :> "Excellent")

\* dict.get(key, default)
DictGet(d, key, default) == IF key \in DOMAIN d THEN d[key] ELSE default

\* rating_label with the "unknown" marker as the dict.get default
rating_label_marker(value) ==
    IF value = None THEN EmDash
    ELSE LET i == PyInt(value)
         IN  IF i.ok THEN DictGet(RATING_LABELS, i.v, EmDash) ELSE EmDash

rating_label(value) ==
    IF value = None THEN EmDash
    ELSE LET i == PyInt(value)
         IN  IF i.ok THEN DictGet(RATING_LABELS, i.v, PyStr(value)) ELSE EmDash

\* rating_label_from_average rounding halves up instead of to even
rating_label_from_average_half_up(avg) ==
    IF avg = None THEN EmDash
    ELSE LET rounded == PyMax(1, PyMin(5, (2 * avg.k + AvgDen) \div (2 * AvgDen)))
         IN  rating_label(IntV(rounded))

rating_label_from_average(avg) ==
    IF avg = None THEN EmDash
    ELSE LET rounded == PyMax(1, PyMin(5, PyRound(avg.k)))
         IN  rating_label(IntV(rounded))

---------------------------------------------------------------------------
(* Translation tables.  The Arabic text of key K is written AR[K]: the     *)
(* tables are closed lookups, and what matters is which keys they hold.    *)

Ar(k) == "AR[" \o k \o "]"

SkillLabels ==
    {"Ball control", "Passing", "Dribbling", "Shooting", "Using both feet",
     "Speed", "Agility", "Endurance", "Strength",
     "Positioning", "Decision making", "Game awareness", "Teamwork",
     "Respect", "Sportsmanship", "Confidence", "Leadership",
     "Attendance and punctuality"}

SectionTitles ==
    {"Technical Skills", "Physical Abilities", "Technical Understanding",
     "Psychological and Social", "Average Level"}

SKILL_TRANSLATIONS_AR == [k \in SkillLabels |-> Ar(k)]

SECTION_TRANSLATIONS_AR == [k \in SectionTitles |-> Ar(k)]

RATING_TRANSLATIONS_AR == [k \in Range(RATING_LABELS) |-> Ar(k)]

\* dict.get(key): the value, or "" standing for None (both are falsy)
DictGetOpt(d, key) == DictGet(d, key, "")

---------------------------------------------------------------------------
(* Arabic font registration and shaping *)

\* local_fonts + windows_candidates + linux_candidates + mac_candidates
NumCandidates == 17

Candidates == 1..NumCandidates

FontStates == {"missing", "corrupt", "good"}

Present(f) == {c \in Candidates : f[c] # "missing"}

\* The subsets of S of at most k elements
RECURSIVE SubsetsOf(_, _)
SubsetsOf(S, k) ==
    IF k = 0 THEN {{}}
    ELSE LET smaller == SubsetsOf(S, k - 1)
         IN  smaller \cup {T \cup {x} : T \in smaller, x \in S}

\* File systems holding at most MaxFontFiles of the candidate files
FontEnvs ==
    UNION {{[c \in Candidates |-> IF c \in S THEN g[c] ELSE "missing"] :
                g \in [S -> {"corrupt", "good"}]} :
           S \in SubsetsOf(Candidates, MaxFontFiles)}

\* The for loop over candidates from index c on: path.exists(), then
\* registerFont(TTFont(...)); an exception moves on to the next candidate.
RECURSIVE ProbeFrom(_, _, _)
ProbeFrom(c, files, reg) ==
    IF c > NumCandidates
    THEN [ret |-> "Helvetica", registered |-> reg,
          probed |-> NumCandidates, path |-> 0]
    ELSE IF files[c] = "good"
         THEN [ret |-> "ArabicFont", registered |-> reg \cup {"ArabicFont"},
               probed |-> c, path |-> c]
         ELSE ProbeFrom(c + 1, files, reg)

\* _register_arabic_font without the "already registered" check
RegisterArabicFont_nocheck(reg, files) == ProbeFrom(1, files, reg)

\* _register_arabic_font returning the fallback name when the font is
\* already registered
RegisterArabicFont_hit_fallback(reg, files) ==
    IF "ArabicFont" \in reg
    THEN [ret |-> "Helvetica", registered |-> reg, probed |-> 0, path |-> 0]
    ELSE ProbeFrom(1, files, reg)

\* _register_arabic_font(): probed is the number of candidates probed,
\* path the candidate registered by this call (0: none)
RegisterArabicFont(reg, files) ==
    IF "ArabicFont" \in reg
    THEN [ret |-> "ArabicFont", registered |-> reg, probed |-> 0, path |-> 0]
    ELSE ProbeFrom(1, files, reg)

\* _shape_arabic(text): the reshaped, reordered text, or the text itself
\* when the shaping libraries are missing or fail, or the text is empty
ShapeArabic(text, works) ==
    IF works /\ text # "" THEN "shaped[" \o text \o "]" ELSE text

---------------------------------------------------------------------------
(* Bilingual renderers.  Each returns the tokens of its f-string. *)

FontOpen(name) == <<"<font name=\"", name, "\">">>
FontClose == <<"</font>">>

with_translation(label) ==
    LET tr == DictGetOpt(SKILL_TRANSLATIONS_AR, label)
    IN  IF tr # "" THEN <<label, " (", tr, ")">> ELSE <<label>>

with_translation_text(label, works) ==
    LET tr == DictGetOpt(SKILL_TRANSLATIONS_AR, label)
    IN  IF tr # "" THEN <<label, " (", ShapeArabic(tr, works), ")">>
        ELSE <<label>>

\* with_translation_html that never appends the translation
with_translation_html_english_only(label, english_font_name, ar_font, works) ==
    FontOpen(english_font_name) \o <<label>> \o FontClose

\* ar_font is arabic_font_name or _register_arabic_font(), already resolved
with_translation_html(label, english_font_name, ar_font, works) ==
    LET tr == DictGetOpt(SKILL_TRANSLATIONS_AR, label)
    IN  IF tr # ""
        THEN FontOpen(english_font_name) \o <<label>> \o FontClose \o <<" - ">>
             \o FontOpen(ar_font) \o <<ShapeArabic(tr, works)>> \o FontClose
        ELSE FontOpen(english_font_name) \o <<label>> \o FontClose

with_section_title_text(title, works) ==
    LET tr == DictGetOpt(SECTION_TRANSLATIONS_AR, title)
    IN  IF tr # "" THEN <<title, " (", ShapeArabic(tr, works), ")">>
        ELSE <<title>>

with_section_title_html(title, english_font_name, ar_font, works) ==
    LET tr == DictGetOpt(SECTION_TRANSLATIONS_AR, title)
    IN  IF tr # ""
        THEN FontOpen(english_font_name) \o <<title>> \o FontClose \o <<" / ">>
             \o FontOpen(ar_font) \o <<ShapeArabic(tr, works)>> \o FontClose
        ELSE FontOpen(english_font_name) \o <<title>> \o FontClose

\* ar_font is what _register_arabic_font() returns inside the f-string
rating_bilingual_html(value, ar_font, works) ==
    LET label == rating_label(value)
        ar == DictGetOpt(RATING_TRANSLATIONS_AR, label)
    IN  IF ar # ""
        THEN FontOpen("Helvetica") \o <<label>> \o FontClose \o <<" / ">>
             \o FontOpen(ar_font) \o <<ShapeArabic(ar, works)>> \o FontClose
        ELSE FontOpen("Helvetica") \o <<label>> \o FontClose

rating_bilingual_html_from_average(avg, ar_font, works) ==
    rating_bilingual_html(StrV(rating_label_from_average(avg)), ar_font, works)

---------------------------------------------------------------------------
(* Applying the helpers: inputs drawn from bounded sets *)

RatingInputs ==
    {None}
    \cup {IntV(n) : n \in (1 - RatingSpan)..(5 + RatingSpan)}
    \cup {StrV(s) : s \in Range(RATING_LABELS) \cup {EmDash, "3", "x"}}

AvgInputs ==
    {None} \cup {FloatV(k) : k \in ((1 - AvgSpan) * AvgDen)..((5 + AvgSpan) * AvgDen)}

LabelInputs == SkillLabels \cup SectionTitles \cup {"Skill", "Rating", "Juggling", ""}

\* fontName of the styles the callers pass (Normal, Heading3)
EnglishFonts == {"Helvetica", "Helvetica-BoldOblique"}

\* arabic_font_name: "" stands for None, the parameter's default
ArabicFontArgs == {"", "ArabicFont", "Helvetica"}

NoCall == [fn |-> "none", arg |-> None, out |-> <<>>]
NoFontLog == [ret |-> "none", probed |-> 0, path |-> 0, was |-> FALSE]

AllFontsMissing == [c \in Candidates |-> "missing"]

\* The effect on the registry of one _register_arabic_font() call whose
\* result is reg
Registers(reg) ==
    /\ registered' = reg.registered
    /\ fontLog' = [ret |-> reg.ret, probed |-> reg.probed, path |-> reg.path,
                   was |-> "ArabicFont" \in registered]
    /\ regTotal' = regTotal + (IF reg.path # 0 THEN 1 ELSE 0)
    /\ UNCHANGED fontFiles

ApplyRatingLabel(value) ==
    /\ call = NoCall
    /\ call' = [fn |-> "rating_label", arg |-> value, out |-> rating_label(value)]
    /\ UNCHANGED <<shaping, fontVars, reportVars>>

ApplyRatingLabelFromAverage(avg) ==
    /\ call = NoCall
    /\ call' = [fn |-> "rating_label_from_average", arg |-> avg,
                out |-> rating_label_from_average(avg)]
    /\ UNCHANGED <<shaping, fontVars, reportVars>>

ApplyWithTranslationText(label) ==
    /\ call = NoCall
    /\ call' = [fn |-> "with_translation_text", arg |-> <<label>>,
                out |-> with_translation_text(label, shaping)]
    /\ UNCHANGED <<shaping, fontVars, reportVars>>

ApplyWithTranslationHtml(label, ef, af) ==
    LET reg == RegisterArabicFont(registered, fontFiles)
        ar_font == IF af # "" THEN af ELSE reg.ret
    IN  /\ call = NoCall
        /\ call' = [fn |-> "with_translation_html", arg |-> <<label, ef, af>>,
                    out |-> with_translation_html(label, ef, ar_font, shaping)]
        /\ IF af # "" THEN UNCHANGED fontVars ELSE Registers(reg)
        /\ UNCHANGED <<shaping, reportVars>>

ApplyWithSectionTitleHtml(title, ef, af) ==
    LET reg == RegisterArabicFont(registered, fontFiles)
        ar_font == IF af # "" THEN af ELSE reg.ret
    IN  /\ call = NoCall
        /\ call' = [fn |-> "with_section_title_html", arg |-> <<title, ef, af>>,
                    out |-> with_section_title_html(title, ef, ar_font, shaping)]
        /\ IF af # "" THEN UNCHANGED fontVars ELSE Registers(reg)
        /\ UNCHANGED <<shaping, reportVars>>

\* rating_bilingual_html_from_average(avg): the font is asked for inside the
\* f-string, so only when the label has a translation
ApplyRatingBilingualHtmlFromAverage(avg) ==
    LET reg == RegisterArabicFont(registered, fontFiles)
        label == rating_label(StrV(rating_label_from_average(avg)))
        translated == DictGetOpt(RATING_TRANSLATIONS_AR, label) # ""
    IN  /\ call = NoCall
        /\ call' = [fn |-> "rating_bilingual_html_from_average", arg |-> avg,
                    out |-> rating_bilingual_html_from_average(avg, reg.ret,
                                                               shaping)]
        /\ IF translated THEN Registers(reg) ELSE UNCHANGED fontVars
        /\ UNCHANGED <<shaping, reportVars>>

\* _register_arabic_font() called on its own
CallRegisterArabicFont ==
    /\ Registers(RegisterArabicFont(registered, fontFiles))
    /\ UNCHANGED <<labelVars, reportVars>>

\* The helper returns to its caller
ReturnFromHelper ==
    /\ call # NoCall
    /\ call' = NoCall
    /\ UNCHANGED <<shaping, fontVars, reportVars>>

\* The file system changes between calls: a candidate font file is removed
FontFileRemoved(c) ==
    /\ fontFiles[c] # "missing"
    /\ fontFiles' = [fontFiles EXCEPT ![c] = "missing"]
    /\ UNCHANGED <<registered, fontLog, regTotal, labelVars, reportVars>>

---------------------------------------------------------------------------
(* Image resolution.  A URL or a base URL is the sequence of its pieces,   *)
(* scheme or leading slash first; an image is "Image", no image "None".    *)

RelativeUrl == <<"/", "media/players/photo.jpg">>
AbsoluteUrl == <<"https://", "cdn.example/photo.jpg">>
HttpBase == <<"https://", "academy.example">>
BareBase == <<"academy.example">>

\* What open() and read() on the field and ImageReader on its bytes can do
StorageOutcomes == {"ok", "open_raises", "read_raises", "undecodable"}
\* getattr(photo, "path", None): a path, None or "", AttributeError (which
\* getattr turns into None), or any other exception (which it lets through)
PathAttrs == {"path", "empty", "AttributeError", "OtherError"}
\* exists()/is_file() and ImageReader on the local path
FileOutcomes == {"ok", "missing", "undecodable", "raises"}
UrlAttrs == {"relative", "absolute", "empty", "AttributeError", "OtherError"}
Bases == {<<>>, HttpBase, BareBase}
FetchOutcomes == {"ok", "raises", "undecodable"}

\* field.open(mode) as the storage sees it: a read mode leaves the blob as
\* it is, any other mode starts it afresh
storage_open_truncating(st, field, mode) ==
    [st EXCEPT !.blobs[field] = "empty"]

storage_open(st, field, mode) ==
    IF mode \in {"r", "rb"} THEN st ELSE [st EXCEPT !.blobs[field] = "empty"]

\* The close left to the path on which the read returns
image_from_field_close_after_read(field, outcome, open, st) ==
    IF outcome = "open_raises"
    THEN [img |-> "None", opened |-> open, store |-> st]
    ELSE [img |-> IF outcome = "ok" THEN "Image" ELSE "None",
          opened |-> IF outcome = "read_raises" THEN open \cup {field}
                     ELSE (open \cup {field}) \ {field},
          store |-> storage_open(st, field, "rb")]

\* _image_from_field(field): the field is opened for reading and closed
\* again once it was opened
image_from_field(field, outcome, open, st) ==
    IF outcome = "open_raises"
    THEN [img |-> "None", opened |-> open, store |-> st]
    ELSE LET afterOpen == open \cup {field}
             afterClose == afterOpen \ {field}
             after == storage_open(st, field, "rb")
         IN  IF outcome = "ok"
             THEN [img |-> "Image", opened |-> afterClose, store |-> after]
             ELSE [img |-> "None", opened |-> afterClose, store |-> after]

\* _safe_image(path)
safe_image(outcome) == IF outcome = "ok" THEN "Image" ELSE "None"

\* url.lstrip("/")
RECURSIVE LStripSlash(_)
LStripSlash(url) ==
    IF url # <<>> /\ Head(url) = "/" THEN LStripSlash(Tail(url)) ELSE url

\* urljoin(base + "/", url.lstrip("/"))
JoinedUrl(base, url) == base \o <<"/">> \o LStripSlash(url)

\* _url_image(url): fetched tells whether urlopen was called
url_image(url, outcome) ==
    IF url = <<>> \/ Head(url) \notin {"http://", "https://"}
    THEN [img |-> "None", fetched |-> FALSE]
    ELSE [img |-> IF outcome = "ok" THEN "Image" ELSE "None", fetched |-> TRUE]

\* getattr(photo, "url", None) as the pieces of the URL (<<>>: None or "")
UrlOf(urlAttr) ==
    CASE urlAttr = "relative" -> RelativeUrl
      [] urlAttr = "absolute" -> AbsoluteUrl
      [] OTHER -> <<>>

\* The condition without the test of the url's first character
should_fetch_always(url, base) == url # <<>> /\ base # <<>>

\* if url and base and url.startswith("/")
should_fetch(url, base) == url # <<>> /\ base # <<>> /\ Head(url) = "/"

NoPhoto ==
    [set |-> FALSE, attempts |-> <<>>, allRaised |-> FALSE, img |-> "None",
     fetched |-> <<>>]

\* The photo once its image is placed in the document: the attempts made
\* are forgotten
Placed(ph) == [ph EXCEPT !.attempts = <<>>, !.fetched = <<>>]

NoResult == [kind |-> "none", from |-> "", bytes |-> <<>>]

NoReport ==
    [kind |-> "none", players |-> <<>>, idx |-> 0, font |-> "", logo |-> "None",
     works |-> FALSE]

CurrentPlayer == report.players[report.idx]

\* An exception leaves the build: the caller gets no bytes
Propagates(from) ==
    /\ result' = [kind |-> "raise", from |-> from, bytes |-> <<>>]
    /\ pc' = "done"

\* if not p.photo: img stays None
PhotoUnset ==
    /\ pc = "photo"
    /\ photo' = NoPhoto
    /\ pc' = "row"
    /\ UNCHANGED <<report, opened, store, story, data, ev, buffer, result>>
    /\ UNCHANGED <<labelVars, fontVars>>

\* img = _image_from_field(p.photo)
ImageFromField(outcome) ==
    LET r == image_from_field(CurrentPlayer, outcome, opened, store)
    IN  /\ pc = "photo"
        /\ photo' = [NoPhoto EXCEPT
                        !.set = TRUE,
                        !.attempts = <<"storage">>,
                        !.allRaised = outcome \in {"open_raises", "read_raises"},
                        !.img = r.img]
        /\ opened' = r.opened
        /\ store' = r.store
        /\ pc' = IF r.img = "Image" THEN "row" ELSE "path"
        /\ UNCHANGED <<report, story, data, ev, buffer, result>>
        /\ UNCHANGED <<labelVars, fontVars>>

\* img_path = getattr(p.photo, "path", None) or MEDIA_ROOT / p.photo.name;
\* img = _safe_image(img_path)
SafeImagePath(pathAttr, outcome) ==
    /\ pc = "path"
    /\ IF pathAttr = "OtherError"
       THEN /\ Propagates("photo.path")
            /\ UNCHANGED photo
       ELSE /\ photo' = [photo EXCEPT
                            !.attempts = Append(@, "path"),
                            !.allRaised = @ /\ pathAttr = "AttributeError",
                            !.img = safe_image(outcome)]
            /\ pc' = IF safe_image(outcome) = "Image" THEN "row" ELSE "url"
            /\ UNCHANGED result
    /\ UNCHANGED <<report, opened, store, story, data, ev, buffer>>
    /\ UNCHANGED <<labelVars, fontVars>>

\* url = getattr(p.photo, "url", None); base = settings.PUBLIC_BASE_URL;
\* if url and base and url.startswith("/"): img = _url_image(urljoin(...))
UrlImage(urlAttr, base, outcome) ==
    LET url == UrlOf(urlAttr)
        tried == should_fetch(url, base)
        r == url_image(JoinedUrl(base, url), outcome)
    IN  /\ pc = "url"
        /\ IF urlAttr = "OtherError"
           THEN /\ Propagates("photo.url")
                /\ UNCHANGED photo
           ELSE /\ photo' = [photo EXCEPT
                                !.attempts = IF tried /\ r.fetched
                                             THEN Append(@, "http") ELSE @,
                                !.allRaised =
                                    @ /\ \/ urlAttr = "AttributeError"
                                         \/ tried /\ r.fetched /\ outcome = "raises",
                                !.img = IF tried THEN r.img ELSE "None",
                                !.fetched = IF tried /\ r.fetched
                                            THEN JoinedUrl(base, url) ELSE @]
                /\ pc' = "row"
                /\ UNCHANGED result
        /\ UNCHANGED <<report, opened, store, story, data, ev, buffer>>
        /\ UNCHANGED <<labelVars, fontVars>>

---------------------------------------------------------------------------
(* Entities read from the ORM *)

Name(id) == "Player " \o IntToStr(id)
Phone(id) == "0100-" \o IntToStr(id)
GroupName == "U12"

\* The rows of the players and the blobs of their photos as stored
InitialStore ==
    [players |-> [p \in 1..MaxPlayers |-> [name |-> Name(p), phone |-> Phone(p)]],
     blobs |-> [p \in 1..MaxPlayers |-> "image bytes"]]
GroupCoach == "Coach A"

\* The ordering keys of an evaluation
EvalKeys == [evaluated_at : 1..MaxTime, updated_at : 1..MaxTime]

\* player.evaluations: at most MaxEvals evaluations
QuerySets == SubsetsOf(EvalKeys, MaxEvals)

\* getattr(player, "evaluations", None) and the query on it: the relation
\* is missing, the query raises, or it runs on the player's evaluations
Queries ==
    {[lookup |-> l, evs |-> {}] : l \in {"no_relation", "raises"}}
    \cup {[lookup |-> "ok", evs |-> s] : s \in QuerySets}

\* a sorts before b under order_by("-evaluated_at", "-updated_at")
SortsBefore(a, b) ==
    \/ a.evaluated_at > b.evaluated_at
    \/ a.evaluated_at = b.evaluated_at /\ a.updated_at > b.updated_at

latest_evaluation_by_evaluated_at(lookup, evs) ==
    IF lookup # "ok" \/ evs = {} THEN None
    ELSE CHOOSE e \in evs : \A o \in evs : o.evaluated_at <= e.evaluated_at

\* _latest_evaluation(player): None, or the keys of the evaluation that
\* order_by(...).first() returns
latest_evaluation(lookup, evs) ==
    IF lookup # "ok" \/ evs = {} THEN None
    ELSE CHOOSE e \in evs : \A o \in evs : ~SortsBefore(o, e)

\* ev.average_rating, the ratings and ev.notes as the report reads them
AvgSamples == {None, FloatV((5 * AvgDen) \div 2)}
RatingSamples == {IntV(3)}
NotesSamples == {"", "Works hard"}

Evaluation(keys, avg, rating, notes) ==
    [t |-> "evaluation", evaluated_at |-> keys.evaluated_at,
     updated_at |-> keys.updated_at, average_rating |-> avg,
     ratings |-> [f \in SkillLabels |-> rating], coach |-> GroupCoach,
     notes |-> notes]

---------------------------------------------------------------------------
(* Flowables.  A paragraph holds the tokens of its text, a table its rows  *)
(* of cells, a cell the tokens it shows.                                   *)

Para(tokens) == [k |-> "Paragraph", c |-> tokens]
Tbl(rows) == [k |-> "Table", c |-> rows]
SpacerB == [k |-> "Spacer", c |-> <<>>]

ImageCell == <<"[Image]">>
EmptyCell == <<"">>
CellOf(img) == IF img = "Image" THEN ImageCell ELSE EmptyCell

\* fontName of reportlab's Heading3 and Normal sample styles
H3Font == "Helvetica-BoldOblique"
NormalFont == "Helvetica"

TechnicalSkills ==
    <<"Ball control", "Passing", "Dribbling", "Shooting", "Using both feet">>
PhysicalAbilities == <<"Speed", "Agility", "Endurance", "Strength">>
TechnicalUnderstanding ==
    <<"Positioning", "Decision making", "Game awareness", "Teamwork">>
PsychologicalAndSocial ==
    <<"Respect", "Sportsmanship", "Confidence", "Leadership">>

\* One section of the player report: its title, its table, a spacer
SectionBlocks(title, head, labels, e, font, works) ==
    <<Para(with_section_title_html(title, H3Font, font, works)),
      Tbl(<< <<<<head>>, <<"Rating">>>> >>
          \o [i \in 1..Len(labels) |->
                <<with_translation_html(labels[i], "Helvetica", font, works),
                  rating_bilingual_html(e.ratings[labels[i]], font, works)>>]),
      SpacerB>>

\* The placeholder whatever the evaluation
EvaluationBlocks_placeholder_only(e, font, works) ==
    <<Para(<<"No evaluation available.">>)>>

\* Lines 489-588: the four rating tables and the overall lines, or the
\* placeholder
EvaluationBlocks(e, font, works) ==
    IF e # None
    THEN SectionBlocks("Technical Skills", "Skill", TechnicalSkills, e, font, works)
         \o SectionBlocks("Physical Abilities", "Attribute", PhysicalAbilities,
                          e, font, works)
         \o SectionBlocks("Technical Understanding", "Aspect",
                          TechnicalUnderstanding, e, font, works)
         \o SectionBlocks("Psychological and Social", "Aspect",
                          PsychologicalAndSocial, e, font, works)
         \o <<Para(with_section_title_html("Average Level", H3Font, font, works)
                   \o <<": ">>
                   \o rating_bilingual_html_from_average(e.average_rating, font,
                                                         works)),
              Para(with_translation_html("Attendance and punctuality", NormalFont,
                                         font, works)
                   \o <<": ">>
                   \o rating_bilingual_html(
                         e.ratings["Attendance and punctuality"], font, works)),
              Para(<<"Coach: ", e.coach>>)>>
         \o (IF e.notes # "" THEN <<SpacerB, Para(<<"Notes: ", e.notes>>)>>
             ELSE <<>>)
    ELSE <<Para(<<"No evaluation available.">>)>>

\* Lines 591-601: the two fixed Arabic headings
ArabicNoteBlocks(works) ==
    <<SpacerB, Para(<<ShapeArabic("AR[Coach's opinion]", works)>>),
      SpacerB, Para(<<ShapeArabic("AR[What the player needs to develop]", works)>>)>>

\* Lines 444-485: the header table of the player report
PlayerHeader(id, phone, logo, img) ==
    <<Tbl(<< <<CellOf(logo), <<"Player Report">>, CellOf(img)>>,
             <<EmptyCell,
               <<"Name: ", Name(id), "<br/>", "Group: ", GroupName, "<br/>",
                 "Age: ", "11">>
               \o (IF phone # "" THEN <<"<br/>", "Phone: ", phone>> ELSE <<>>),
               EmptyCell>> >>),
      SpacerB>>

\* Lines 344-359: the header table of the group report
GroupHeader(logo) ==
    <<Tbl(<< <<CellOf(logo), <<"Group Report: ", GroupName>>>>,
             <<EmptyCell, <<"Coach: ", GroupCoach>>>> >>),
      SpacerB>>

HeaderRow == << <<"Photo">>, <<"Player">>, <<"Phone">>, <<"Avg">> >>

\* Lines 381-387: the row of one player
GroupRow(id, img, e, avg) ==
    <<CellOf(img), <<Name(id)>>, <<Phone(id)>>,
      <<IF e # None THEN rating_label_from_average(avg) ELSE "-">> >>

FallbackGroupStory ==
    <<Para(<<"Group Report">>), SpacerB, Para(<<"Group: ", GroupName>>)>>

FallbackPlayerStory(id) ==
    <<Para(<<"Player Report">>), SpacerB, Para(<<"Name: ", Name(id)>>)>>

\* What a build writes to its buffer
Document(blocks) == [w |-> "document", story |-> blocks]
PartialOutput == [w |-> "partial", story |-> <<>>]

---------------------------------------------------------------------------
(* The report builders *)

Images == {"None", "Image"}
BuildOutcomes == {"ok", "OSError", "OtherError"}

\* build_group_report(group), lines 338-362: the header, then the loop over
\* group.players; with no player the table is appended at once
CallGroupReport(n, logo) ==
    /\ pc = "idle"
    /\ report' = [kind |-> "group", players |-> [i \in 1..n |-> i], idx |-> 1,
                  font |-> "", logo |-> logo, works |-> FALSE]
    /\ data' = <<HeaderRow>>
    /\ story' = IF n = 0 THEN GroupHeader(logo) \o <<Tbl(<<HeaderRow>>)>>
                ELSE GroupHeader(logo)
    /\ pc' = IF n = 0 THEN "build" ELSE "photo"
    /\ photo' = NoPhoto
    /\ ev' = None
    /\ buffer' = <<>>
    /\ result' = NoResult
    /\ UNCHANGED <<opened, store, labelVars, fontVars>>

\* build_player_report(player), lines 415-452: the styles, with the Arabic
\* font registered on the file system files as the call finds it
CallPlayerReport(files) ==
    LET reg == RegisterArabicFont(registered, files)
    IN  /\ pc = "idle"
        /\ report' = [kind |-> "player", players |-> <<1>>, idx |-> 1,
                      font |-> reg.ret, logo |-> "None", works |-> FALSE]
        /\ registered' = reg.registered
        /\ fontLog' = [ret |-> reg.ret, probed |-> reg.probed, path |-> reg.path,
                       was |-> "ArabicFont" \in registered]
        /\ regTotal' = regTotal + (IF reg.path # 0 THEN 1 ELSE 0)
        /\ data' = <<>>
        /\ story' = <<>>
        /\ pc' = "photo"
        /\ photo' = NoPhoto
        /\ ev' = None
        /\ buffer' = <<>>
        /\ result' = NoResult
        /\ UNCHANGED <<opened, store, fontFiles, labelVars>>

\* The rows started afresh for every player
data_append_reset(rows, row) == <<HeaderRow, row>>

\* data.append(row)
data_append(rows, row) == Append(rows, row)

\* Lines 381-395: the player's row with the label of the latest
\* evaluation's average; after the last player the table joins the story
Row(q, avg) ==
    LET e == latest_evaluation(q.lookup, q.evs)
        rows == data_append(data, GroupRow(CurrentPlayer, photo.img, e, avg))
        last == report.idx = Len(report.players)
    IN  /\ pc = "row"
        /\ report.kind = "group"
        /\ e = None => avg = None
        /\ data' = rows
        /\ story' = IF last THEN story \o <<Tbl(rows)>> ELSE story
        /\ report' = IF last THEN report ELSE [report EXCEPT !.idx = @ + 1]
        /\ pc' = IF last THEN "build" ELSE "photo"
        /\ photo' = Placed(photo)
        /\ UNCHANGED <<opened, store, ev, buffer, result, labelVars, fontVars>>

\* Lines 471-601: the logo, the header table, the evaluation's tables or
\* the placeholder, the Arabic headings; works tells whether shaping works
Body(q, avg, rating, notes, logo, works) ==
    LET keys == latest_evaluation(q.lookup, q.evs)
        e == IF keys = None THEN None ELSE Evaluation(keys, avg, rating, notes)
    IN  /\ pc = "row"
        /\ report.kind = "player"
        /\ keys = None => avg = None /\ notes = ""
        /\ ev' = e
        /\ report' = [report EXCEPT !.logo = logo, !.works = works]
        /\ story' = PlayerHeader(CurrentPlayer, Phone(CurrentPlayer), logo,
                                 photo.img)
                    \o EvaluationBlocks(e, report.font, works)
                    \o ArabicNoteBlocks(works)
        /\ pc' = "build"
        /\ photo' = Placed(photo)
        /\ UNCHANGED <<opened, store, data, buffer, result>>
        /\ UNCHANGED <<labelVars, fontVars>>

\* doc.build(story): the layout engine writes the document, or raises
\* having written nothing or a part of it
Build(outcome, partial) ==
    /\ pc = "build"
    /\ IF outcome = "ok"
       THEN /\ buffer' = <<Document(story)>>
            /\ result' = [kind |-> "bytes", from |-> "build",
                          bytes |-> <<Document(story)>>]
            /\ pc' = "done"
       ELSE /\ buffer' = IF partial THEN <<PartialOutput>> ELSE <<>>
            /\ IF outcome = "OSError"
               THEN pc' = "fallback" /\ UNCHANGED result
               ELSE Propagates("layout")
    /\ UNCHANGED <<report, photo, opened, store, story, data, ev>>
    /\ UNCHANGED <<labelVars, fontVars>>

\* except OSError, group report: a minimal document built in a buffer of
\* its own, whose value is returned
fallback_group(buf) ==
    [buffer |-> buf, bytes |-> <<Document(FallbackGroupStory)>>]

\* except OSError, player report: a minimal document built in the same
\* buffer, whose value is returned
fallback_player(buf, id) ==
    [buffer |-> buf \o <<Document(FallbackPlayerStory(id))>>,
     bytes |-> buf \o <<Document(FallbackPlayerStory(id))>>]

\* The except OSError branch; an exception of the second build leaves it
Fallback(outcome) ==
    LET f == IF report.kind = "group" THEN fallback_group(buffer)
             ELSE fallback_player(buffer, CurrentPlayer)
    IN  /\ pc = "fallback"
        /\ IF outcome = "ok"
           THEN /\ buffer' = f.buffer
                /\ result' = [kind |-> "bytes", from |-> "fallback",
                              bytes |-> f.bytes]
                /\ pc' = "done"
           ELSE /\ Propagates("fallback")
                /\ UNCHANGED buffer
        /\ UNCHANGED <<report, photo, opened, store, story, data, ev>>
        /\ UNCHANGED <<labelVars, fontVars>>

\* The caller has the result; the next build may start
Return ==
    /\ pc = "done"
    /\ pc' = "idle"
    /\ report' = NoReport
    /\ photo' = NoPhoto
    /\ story' = <<>>
    /\ data' = <<>>
    /\ ev' = None
    /\ buffer' = <<>>
    /\ result' = NoResult
    /\ fontLog' = NoFontLog
    /\ UNCHANGED <<opened, store, labelVars, registered, fontFiles, regTotal>>

---------------------------------------------------------------------------
(* The report builders as functions of their input, of the environment the  *)
(* call meets and of the state earlier calls left: the font registry and    *)
(* the photo fields left open.                                              *)

\* What the photo of one player meets on each source
PhotoEnvs ==
    [set : BOOLEAN, storage : StorageOutcomes, pathAttr : PathAttrs,
     file : FileOutcomes, urlAttr : UrlAttrs, base : Bases,
     fetch : FetchOutcomes]

\* Lines 365-380 and 454-469: the image, or the place an exception left from
ResolvePhoto(p, pe, open, st) ==
    IF ~pe.set
    THEN [img |-> "None", raised |-> "", opened |-> open, store |-> st]
    ELSE
      LET r == image_from_field(p, pe.storage, open, st)
          url == UrlOf(pe.urlAttr)
      IN  IF r.img = "Image"
          THEN [img |-> "Image", raised |-> "", opened |-> r.opened,
                store |-> r.store]
          ELSE IF pe.pathAttr = "OtherError"
          THEN [img |-> "None", raised |-> "photo.path", opened |-> r.opened,
                store |-> r.store]
          ELSE IF safe_image(pe.file) = "Image"
          THEN [img |-> "Image", raised |-> "", opened |-> r.opened,
                store |-> r.store]
          ELSE IF pe.urlAttr = "OtherError"
          THEN [img |-> "None", raised |-> "photo.url", opened |-> r.opened,
                store |-> r.store]
          ELSE [img |-> IF should_fetch(url, pe.base)
                        THEN url_image(JoinedUrl(pe.base, url), pe.fetch).img
                        ELSE "None",
                raised |-> "", opened |-> r.opened,
                store |-> r.store]

\* doc.build(story) and the except OSError branch: what the caller gets
Finish(kind, id, blocks, build, partial, fallback) ==
    LET buf == IF partial THEN <<PartialOutput>> ELSE <<>>
        f == IF kind = "group" THEN fallback_group(buf)
             ELSE fallback_player(buf, id)
    IN  IF build = "ok"
        THEN [kind |-> "bytes", from |-> "build", bytes |-> <<Document(blocks)>>]
        ELSE IF build = "OtherError"
        THEN [kind |-> "raise", from |-> "layout", bytes |-> <<>>]
        ELSE IF fallback # "ok"
        THEN [kind |-> "raise", from |-> "fallback", bytes |-> <<>>]
        ELSE [kind |-> "bytes", from |-> "fallback", bytes |-> f.bytes]

\* build_player_report(player) for player 1
build_player_report(env, reg, open, st) ==
    LET f == RegisterArabicFont(reg, env.files)
        ph == ResolvePhoto(1, env.photo, open, st)
        keys == latest_evaluation(env.eval.q.lookup, env.eval.q.evs)
        e == IF keys = None THEN None
             ELSE Evaluation(keys, env.eval.avg, IntV(3), env.eval.notes)
        blocks == PlayerHeader(1, Phone(1), env.logo, ph.img)
                  \o EvaluationBlocks(e, f.ret, env.works)
                  \o ArabicNoteBlocks(env.works)
    IN  [result |-> IF ph.raised # ""
                    THEN [kind |-> "raise", from |-> ph.raised, bytes |-> <<>>]
                    ELSE Finish("player", 1, blocks, env.finish.build,
                                env.finish.partial, env.finish.fallback),
         font |-> f, registered |-> f.registered, opened |-> ph.opened,
         store |-> ph.store, ev |-> e]

\* The loop of build_group_report over players i..n: the rows, or the place
\* an exception left from
RECURSIVE GroupRows(_, _, _, _, _)
GroupRows(i, env, open, st, rows) ==
    IF i > env.n
    THEN [rows |-> rows, raised |-> "", opened |-> open, store |-> st]
    ELSE
      LET ph == ResolvePhoto(i, env.players[i].photo, open, st)
          q == env.players[i].eval.q
          e == latest_evaluation(q.lookup, q.evs)
      IN  IF ph.raised # ""
          THEN [rows |-> rows, raised |-> ph.raised, opened |-> ph.opened,
                store |-> ph.store]
          ELSE GroupRows(i + 1, env, ph.opened, ph.store,
                         data_append(rows, GroupRow(i, ph.img, e,
                                                    env.players[i].eval.avg)))

\* build_group_report(group) for the group of players 1..n
build_group_report(env, open, st) ==
    LET g == GroupRows(1, env, open, st, <<HeaderRow>>)
        blocks == GroupHeader(env.logo) \o <<Tbl(g.rows)>>
    IN  [result |-> IF g.raised # ""
                    THEN [kind |-> "raise", from |-> g.raised, bytes |-> <<>>]
                    ELSE Finish("group", 0, blocks, env.finish.build,
                                env.finish.partial, env.finish.fallback),
         opened |-> g.opened, store |-> g.store]

\* The bundled fonts directory as a report build may find it
ReportFontEnvs == {f \in FontEnvs : Present(f) \subseteq {1}}

\* The evaluation queries a report build runs: evaluations that were not
\* edited after they were made
ReportQueries ==
    {q \in Queries : \A e \in q.evs : e.updated_at = e.evaluated_at}

\* The environments the repeated calls are tried in: what a source is not
\* asked for is left at its first value
RepeatPhotoEnvs ==
    {pe \in PhotoEnvs :
        /\ pe.base = HttpBase
        /\ pe.storage \in {"ok", "open_raises", "read_raises"}
        /\ pe.pathAttr \in {"AttributeError", "OtherError"}
        /\ pe.file \in {"ok", "missing"}
        /\ pe.urlAttr \in {"relative", "OtherError"}
        /\ pe.fetch \in {"ok", "raises"}
        /\ (~pe.set \/ pe.storage = "ok") =>
                pe.storage = "ok" /\ pe.pathAttr = "AttributeError"
        /\ (pe.storage = "ok" \/ pe.pathAttr = "OtherError") => pe.file = "missing"
        /\ (pe.storage = "ok" \/ pe.pathAttr = "OtherError" \/ pe.file = "ok") =>
                pe.urlAttr = "relative"
        /\ (pe.storage = "ok" \/ pe.pathAttr = "OtherError" \/ pe.file = "ok"
              \/ pe.urlAttr = "OtherError") => pe.fetch = "ok"}

UnsetPhoto ==
    [set |-> FALSE, storage |-> "ok", pathAttr |-> "AttributeError",
     file |-> "missing", urlAttr |-> "relative", base |-> HttpBase,
     fetch |-> "ok"]

GroupPhotoEnvs ==
    {pe \in RepeatPhotoEnvs :
        /\ pe.storage # "open_raises" /\ pe.file = "missing" /\ pe.fetch = "ok"
        /\ pe.urlAttr = "relative"}

FinishEnvs ==
    {fe \in [build : BuildOutcomes, partial : BOOLEAN, fallback : {"ok", "raises"}] :
        fe.build # "OSError" => ~fe.partial /\ fe.fallback = "ok"}

PlainFinish == [build |-> "ok", partial |-> FALSE, fallback |-> "ok"]

EvalEnvs ==
    {ee \in [q : ReportQueries, avg : AvgSamples, notes : NotesSamples] :
        latest_evaluation(ee.q.lookup, ee.q.evs) = None =>
            ee.avg = None /\ ee.notes = ""}

NoEvaluation == [q |-> [lookup |-> "ok", evs |-> {}], avg |-> None, notes |-> ""]

GroupEvalEnvs ==
    {ee \in EvalEnvs :
        /\ ee.notes = "" /\ ee.q.lookup = "ok" /\ Cardinality(ee.q.evs) <= 1
        /\ \A e \in ee.q.evs : e.evaluated_at = 1 /\ ee.avg # None}

\* At most one of the conditions holds
AtMostOne(conds) ==
    \A i, j \in DOMAIN conds : (i # j /\ conds[i]) => ~conds[j]

\* The fonts and the shaping vary freely, the rest one at a time
PlayerEnvs ==
    {env \in [files : ReportFontEnvs, photo : RepeatPhotoEnvs, eval : EvalEnvs,
              logo : Images, works : BOOLEAN, finish : FinishEnvs] :
        AtMostOne(<<env.photo # UnsetPhoto, env.eval # NoEvaluation,
                    env.logo # "None", env.finish # PlainFinish>>)}

GroupPlayerEnvs ==
    {pl \in [photo : GroupPhotoEnvs, eval : GroupEvalEnvs] :
        AtMostOne(<<pl.photo # UnsetPhoto, pl.eval # NoEvaluation>>)}

\* The players vary freely, the logo and the layout one at a time
GroupEnvs ==
    UNION {{env \in [n : {n}, players : [1..n -> GroupPlayerEnvs], logo : Images,
                     finish : FinishEnvs] :
                AtMostOne(<<env.logo # "None", env.finish # PlainFinish>>)} :
           n \in 0..MaxPlayers}

\* build_player_report called twice in a row on the same player in the same
\* environment; out holds the two results
RepeatPlayerReport(env) ==
    LET r1 == build_player_report(env, registered, opened, store)
        r2 == build_player_report(env, r1.registered, r1.opened, r1.store)
    IN  /\ call = NoCall
        /\ call' = [fn |-> "build_player_report",
                    arg |-> <<env, registered, opened>>,
                    out |-> <<r1.result, r2.result>>]
        /\ registered' = r2.registered
        /\ opened' = r2.opened
        /\ store' = r2.store
        /\ fontFiles' = env.files
        /\ fontLog' = [ret |-> r2.font.ret, probed |-> r2.font.probed,
                       path |-> r2.font.path,
                       was |-> "ArabicFont" \in r1.registered]
        /\ regTotal' = regTotal + (IF r1.font.path # 0 THEN 1 ELSE 0)
                                + (IF r2.font.path # 0 THEN 1 ELSE 0)
        /\ UNCHANGED <<shaping, pc, report, photo, story, data, ev, buffer, result>>

\* build_group_report called twice in a row on the same group
RepeatGroupReport(env) ==
    LET r1 == build_group_report(env, opened, store)
        r2 == build_group_report(env, r1.opened, r1.store)
    IN  /\ call = NoCall
        /\ call' = [fn |-> "build_group_report",
                    arg |-> <<env, registered, opened>>,
                    out |-> <<r1.result, r2.result>>]
        /\ opened' = r2.opened
        /\ store' = r2.store
        /\ UNCHANGED <<shaping, fontVars>>
        /\ UNCHANGED <<pc, report, photo, story, data, ev, buffer, result>>

---------------------------------------------------------------------------
(* academy/settings.py: the database configuration read from the           *)
(* environment.  A variable is unset, set to the empty string, or set to   *)
(* a value; a string is the sequence of its pieces.                        *)

UrlNames == <<"DATABASE_URL", "POSTGRES_URL", "PG_URL">>
EnvNames ==
    {"DATABASE_URL", "POSTGRES_URL", "PG_URL", "PGDATABASE", "PGHOST",
     "DB_NAME", "DB_HOST"}

Unset == [set |-> FALSE, v |-> <<>>]
EmptyString == [set |-> TRUE, v |-> <<>>]

\* A connection string without a port; its host and database are named
\* after the variable that holds it
DbUrl(name) ==
    <<"postgres://", "user", ":", "secret", "@", "host-" \o name, "", "/",
      "db-" \o name>>

\* The value a variable has when it is set and not empty
ValueOf(name) ==
    IF \E i \in DOMAIN UrlNames : UrlNames[i] = name
    THEN [set |-> TRUE, v |-> DbUrl(name)]
    ELSE [set |-> TRUE, v |-> <<"value-" \o name>>]

Environs == [EnvNames -> {"unset", "empty", "value"}]

\* os.environ for a choice of what is set
Environ(choice) ==
    [n \in EnvNames |->
        CASE choice[n] = "unset" -> Unset
          [] choice[n] = "empty" -> EmptyString
          [] OTHER -> ValueOf(n)]

\* bool(os.getenv(name)): None and "" are false
Truthy(e) == e.set /\ e.v # <<>>

\* os.getenv(name, default)
getenv(environ, name, default) ==
    IF environ[name].set THEN environ[name].v ELSE default

\* os.getenv(a) or os.getenv(b) or os.getenv(c)
FirstTruthy(environ, names) ==
    IF \E i \in DOMAIN names : Truthy(environ[names[i]])
    THEN environ[names[CHOOSE i \in DOMAIN names :
                        /\ Truthy(environ[names[i]])
                        /\ \A j \in 1..(i - 1) : ~Truthy(environ[names[j]])]]
    ELSE Unset

\* urlparse(url) of a connection string
urlparse(url) ==
    [username |-> <<url[2]>>, password |-> <<url[4]>>, hostname |-> <<url[6]>>,
     port |-> url[7], path |-> SubSeq(url, 8, Len(url))]

\* DATABASES["default"] with PGDATABASE looked at after DB_NAME
DATABASES_db_first(environ) ==
    LET db_url == FirstTruthy(environ, UrlNames)
        parsed == urlparse(db_url.v)
    IN  IF Truthy(db_url)
        THEN [ENGINE |-> "django.db.backends.postgresql",
              NAME |-> LStripSlash(parsed.path), HOST |-> parsed.hostname,
              PORT |-> IF parsed.port # "" THEN parsed.port ELSE "5432"]
        ELSE IF Truthy(environ["DB_NAME"])
        THEN [ENGINE |-> "django.db.backends.postgresql",
              NAME |-> environ["DB_NAME"].v,
              HOST |-> getenv(environ, "DB_HOST", <<"localhost">>),
              PORT |-> "5432"]
        ELSE IF Truthy(environ["PGDATABASE"])
        THEN [ENGINE |-> "django.db.backends.postgresql",
              NAME |-> environ["PGDATABASE"].v,
              HOST |-> getenv(environ, "PGHOST", <<"localhost">>),
              PORT |-> "5432"]
        ELSE [ENGINE |-> "django.db.backends.sqlite3",
              NAME |-> <<"BASE_DIR", "/", "db.sqlite3">>, HOST |-> <<>>,
              PORT |-> ""]

\* DATABASES["default"], settings.py lines 74-115
DATABASES(environ) ==
    LET db_url == FirstTruthy(environ, UrlNames)
        parsed == urlparse(db_url.v)
    IN  IF Truthy(db_url)
        THEN [ENGINE |-> "django.db.backends.postgresql",
              NAME |-> LStripSlash(parsed.path), HOST |-> parsed.hostname,
              PORT |-> IF parsed.port # "" THEN parsed.port ELSE "5432"]
        ELSE IF Truthy(environ["PGDATABASE"])
        THEN [ENGINE |-> "django.db.backends.postgresql",
              NAME |-> environ["PGDATABASE"].v,
              HOST |-> getenv(environ, "PGHOST", <<"localhost">>),
              PORT |-> "5432"]
        ELSE IF Truthy(environ["DB_NAME"])
        THEN [ENGINE |-> "django.db.backends.postgresql",
              NAME |-> environ["DB_NAME"].v,
              HOST |-> getenv(environ, "DB_HOST", <<"localhost">>),
              PORT |-> "5432"]
        ELSE [ENGINE |-> "django.db.backends.sqlite3",
              NAME |-> <<"BASE_DIR", "/", "db.sqlite3">>, HOST |-> <<>>,
              PORT |-> ""]

\* The settings module is loaded in an environment
LoadSettings(choice) ==
    /\ call = NoCall
    /\ call' = [fn |-> "DATABASES", arg |-> Environ(choice),
                out |-> DATABASES(Environ(choice))]
    /\ UNCHANGED <<shaping, fontVars, reportVars>>

---------------------------------------------------------------------------
(* Specifications *)

vars == <<call, shaping, registered, fontFiles, fontLog, regTotal, pc, report,
          photo, opened, store, story, data, ev, buffer, result>>

InitFontVars ==
    /\ registered = {}
    /\ fontLog = NoFontLog
    /\ regTotal = 0

InitReportVars ==
    /\ pc = "idle"
    /\ report = NoReport
    /\ photo = NoPhoto
    /\ opened = {}
    /\ store = InitialStore
    /\ story = <<>>
    /\ data = <<>>
    /\ ev = None
    /\ buffer = <<>>
    /\ result = NoResult

\* The report builders called one after the other
Init ==
    /\ call = NoCall
    /\ shaping = TRUE
    /\ fontFiles = AllFontsMissing
    /\ InitFontVars
    /\ InitReportVars

Next ==
    \/ \E n \in 0..MaxPlayers, logo \in Images : CallGroupReport(n, logo)
    \/ \E files \in ReportFontEnvs : CallPlayerReport(files)
    \/ PhotoUnset
    \/ \E outcome \in StorageOutcomes : ImageFromField(outcome)
    \/ \E pathAttr \in PathAttrs, outcome \in FileOutcomes :
            SafeImagePath(pathAttr, outcome)
    \/ \E urlAttr \in UrlAttrs, base \in Bases, outcome \in FetchOutcomes :
            UrlImage(urlAttr, base, outcome)
    \/ \E q \in ReportQueries, avg \in AvgSamples : Row(q, avg)
    \/ \E q \in ReportQueries, avg \in AvgSamples, rating \in RatingSamples,
          notes \in NotesSamples, logo \in Images, works \in BOOLEAN :
            Body(q, avg, rating, notes, logo, works)
    \/ \E outcome \in BuildOutcomes, partial \in BOOLEAN : Build(outcome, partial)
    \/ \E outcome \in {"ok", "raises"} : Fallback(outcome)
    \/ Return

Spec == Init /\ [][Next]_vars

\* The helpers applied to every input
InitLabel ==
    /\ call = NoCall
    /\ shaping \in BOOLEAN
    /\ fontFiles \in {f \in FontEnvs : Present(f) \subseteq {1}}
    /\ InitFontVars
    /\ InitReportVars

NextLabel ==
    \/ \E value \in RatingInputs : ApplyRatingLabel(value)
    \/ \E avg \in AvgInputs : ApplyRatingLabelFromAverage(avg)
    \/ \E label \in LabelInputs : ApplyWithTranslationText(label)
    \/ \E label \in LabelInputs, ef \in EnglishFonts, af \in ArabicFontArgs :
            ApplyWithTranslationHtml(label, ef, af)
    \/ \E title \in LabelInputs, ef \in EnglishFonts, af \in ArabicFontArgs :
            ApplyWithSectionTitleHtml(title, ef, af)
    \/ \E avg \in AvgInputs : ApplyRatingBilingualHtmlFromAverage(avg)
    \/ ReturnFromHelper

SpecLabel == InitLabel /\ [][NextLabel]_vars

\* _register_arabic_font called again and again while font files go away
InitFont ==
    /\ call = NoCall
    /\ shaping = TRUE
    /\ fontFiles \in FontEnvs
    /\ InitFontVars
    /\ InitReportVars

NextFont ==
    \/ CallRegisterArabicFont
    \/ \E c \in Candidates : FontFileRemoved(c)

SpecFont == InitFont /\ [][NextFont]_vars

\* Each builder called twice in a row, in every environment
NextRepeat ==
    \/ \E env \in PlayerEnvs : RepeatPlayerReport(env)
    \/ \E env \in GroupEnvs : RepeatGroupReport(env)
    \/ ReturnFromHelper

SpecRepeat == Init /\ [][NextRepeat]_vars

\* The settings loaded in every environment
NextSettings ==
    \/ \E choice \in Environs : LoadSettings(choice)
    \/ ReturnFromHelper

SpecSettings == Init /\ [][NextSettings]_vars

\* The evaluation rows as stored: each row has its own ratings, so that a
\* report tells which row it was made from
StoredEvaluation(keys) ==
    LET r == (((keys.evaluated_at - 1) * MaxTime + keys.updated_at - 1) % 5) + 1
    IN  Evaluation(keys, FloatV(r * AvgDen), IntV(r), "")

\* _latest_evaluation(player) on its own
ApplyLatestEvaluation(q) ==
    /\ call = NoCall
    /\ call' = [fn |-> "_latest_evaluation", arg |-> q,
                out |-> <<latest_evaluation(q.lookup, q.evs)>>]
    /\ UNCHANGED <<shaping, fontVars, reportVars>>

\* Lines 381-386: the row build_group_report makes for a player with these
\* evaluations
LatestInGroupRow(id, q) ==
    LET e == latest_evaluation(q.lookup, q.evs)
        avg == IF e = None THEN None ELSE StoredEvaluation(e).average_rating
    IN  /\ call = NoCall
        /\ call' = [fn |-> "build_group_report", arg |-> q,
                    out |-> GroupRow(id, "None", e, avg)]
        /\ UNCHANGED <<shaping, fontVars, reportVars>>

\* Lines 488-588: the evaluation section build_player_report makes for a
\* player with these evaluations
LatestInPlayerReport(font, q) ==
    LET keys == latest_evaluation(q.lookup, q.evs)
        e == IF keys = None THEN None ELSE StoredEvaluation(keys)
    IN  /\ call = NoCall
        /\ call' = [fn |-> "build_player_report", arg |-> q,
                    out |-> EvaluationBlocks(e, font, shaping)]
        /\ UNCHANGED <<shaping, fontVars, reportVars>>

NextLatest ==
    \/ \E q \in Queries : ApplyLatestEvaluation(q)
    \/ \E id \in 1..MaxPlayers, q \in Queries : LatestInGroupRow(id, q)
    \/ \E font \in {"Helvetica", "ArabicFont"}, q \in Queries :
            LatestInPlayerReport(font, q)
    \/ ReturnFromHelper

SpecLatest == InitLabel /\ [][NextLatest]_vars

---------------------------------------------------------------------------
(* Claims *)

Clamp(n, lo, hi) == IF n < lo THEN lo ELSE IF n > hi THEN hi ELSE n

FixedLabel(r) ==
    CASE r = 1 -> "Bad" [] r = 2 -> "Not bad" [] r = 3 -> "Good"
      [] r = 4 -> "Very Good" [] r = 5 -> "Excellent"

\* C4 (as amended): rating_label is total; every integer r in 1..5 gives its
\* fixed label, None gives the "unknown" marker, and an integer outside 1..5
\* gives the decimal text of r (not the marker).
C4_RatingLabelTotal ==
    call.fn = "rating_label" =>
        /\ call.arg = None => call.out = EmDash
        /\ call.arg.t = "int" /\ call.arg.v \in 1..5 =>
                call.out = FixedLabel(call.arg.v)
        /\ call.arg.t = "int" /\ call.arg.v \notin 1..5 =>
                call.out = ToString(call.arg.v) /\ call.out # EmDash

\* C4 as claimed: an integer outside 1..5 gives the "unknown" marker.
C4_OutOfRangeIsUnknown ==
    call.fn = "rating_label" =>
        /\ call.arg = None => call.out = EmDash
        /\ call.arg.t = "int" /\ call.arg.v \in 1..5 =>
                call.out = FixedLabel(call.arg.v)
        /\ call.arg.t = "int" /\ call.arg.v \notin 1..5 => call.out = EmDash

C4_Witness ==
    call.fn = "rating_label" /\ call.arg = IntV(6) /\ call.out = "6"

\* n is the integer nearest to k/AvgDen, the even one of two equally near
Nearest(n, k) ==
    LET d == IF n * AvgDen >= k THEN n * AvgDen - k ELSE k - n * AvgDen
    IN  2 * d <= AvgDen /\ (2 * d = AvgDen => n % 2 = 0)

\* C5: for every present average a, rating_label_from_average(a) is
\* rating_label(clamp(round(a), 1, 5)), round being Python's (halves go to the
\* even neighbour), so it is one of the five fixed labels; an absent average
\* gives the "unknown" marker.
C5_AverageLabelClamped ==
    call.fn = "rating_label_from_average" =>
        /\ call.arg = None => call.out = EmDash
        /\ call.arg # None =>
            /\ \E n \in (0 - AvgSpan - 1)..(5 + AvgSpan + 1) :
                  /\ Nearest(n, call.arg.k)
                  /\ call.out = rating_label(IntV(Clamp(n, 1, 5)))
                  /\ call.out = FixedLabel(Clamp(n, 1, 5))
            /\ call.out \in {"Bad", "Not bad", "Good", "Very Good", "Excellent"}

\* The exact half 2.5 has been labelled: it rounds to 2
C5_Witness ==
    /\ call.fn = "rating_label_from_average"
    /\ call.arg # None
    /\ 2 * call.arg.k = 5 * AvgDen
    /\ call.out = "Not bad"

InTable(fn, label) ==
    IF fn = "with_section_title_html" THEN label \in SectionTitles
    ELSE label \in SkillLabels

TableOf(fn) ==
    IF fn = "with_section_title_html" THEN SECTION_TRANSLATIONS_AR
    ELSE SKILL_TRANSLATIONS_AR

BilingualFns ==
    {"with_translation_text", "with_translation_html", "with_section_title_html"}

C8_Present ==
    call.fn \in BilingualFns /\ InTable(call.fn, call.arg[1]) =>
        /\ call.arg[1] \in Range(call.out)
        /\ ShapeArabic(TableOf(call.fn)[call.arg[1]], shaping) \in Range(call.out)

\* C8 (as amended): for a label of the translation table the output holds
\* both the English label and the shaped translation; for a label absent
\* from the table, with_translation_text returns the label alone, and the two
\* HTML renderers return the label alone inside one <font> element naming
\* the English font, with no separator and no translation.
C8_Bilingual ==
    /\ C8_Present
    /\ call.fn = "with_translation_text" /\ ~InTable(call.fn, call.arg[1]) =>
            call.out = <<call.arg[1]>>
    /\ /\ call.fn \in {"with_translation_html", "with_section_title_html"}
       /\ ~InTable(call.fn, call.arg[1])
       => call.out = <<"<font name=\"", call.arg[2], "\">", call.arg[1], "</font>">>

\* C8 as claimed: for a label absent from the table the output of each of
\* the three renderers equals the English label alone.
C8_AbsentIsLabelAlone ==
    /\ C8_Present
    /\ call.fn \in BilingualFns /\ ~InTable(call.fn, call.arg[1]) =>
            call.out = <<call.arg[1]>>

C8_Witness ==
    /\ call.fn = "with_translation_html"
    /\ call.arg[1] = "Juggling"
    /\ call.out # <<"Juggling">>

\* the first candidate whose file exists and loads (0: none)
FirstGood(files) ==
    IF \E c \in Candidates : files[c] = "good"
    THEN CHOOSE c \in Candidates :
            files[c] = "good" /\ \A d \in 1..(c - 1) : files[d] # "good"
    ELSE 0

\* C10: every call of _register_arabic_font returns "ArabicFont" or
\* "Helvetica"; with the font already registered it returns "ArabicFont"
\* without probing or registering; otherwise it probes the candidates in
\* order and registers the first that exists and loads, or returns
\* "Helvetica" and registers nothing when there is none; once it has returned
\* "ArabicFont" it does so ever after, and the font is registered at most once.
C10_RegisterIdempotent ==
    [][ /\ regTotal' <= 1
        /\ fontLog.ret = "ArabicFont" => fontLog'.ret = "ArabicFont"
        /\ (fontLog' # fontLog \/ regTotal' # regTotal) =>
            /\ fontLog'.ret \in {"ArabicFont", "Helvetica"}
            /\ "ArabicFont" \in registered =>
                  /\ fontLog'.ret = "ArabicFont" /\ fontLog'.probed = 0
                  /\ regTotal' = regTotal /\ registered' = registered
            /\ "ArabicFont" \notin registered /\ FirstGood(fontFiles) # 0 =>
                  /\ fontLog'.ret = "ArabicFont"
                  /\ fontLog'.path = FirstGood(fontFiles)
                  /\ fontLog'.probed = FirstGood(fontFiles)
                  /\ regTotal' = regTotal + 1
                  /\ registered' = registered \cup {"ArabicFont"}
            /\ "ArabicFont" \notin registered /\ FirstGood(fontFiles) = 0 =>
                  /\ fontLog'.ret = "Helvetica"
                  /\ regTotal' = regTotal /\ registered' = registered
      ]_vars

\* a later call has returned "ArabicFont" without probing, the font file
\* registered before being gone by then
C10_Witness ==
    /\ fontLog.ret = "ArabicFont" /\ fontLog.was /\ fontLog.probed = 0
    /\ regTotal = 1
    /\ FirstGood(fontFiles) = 0

---------------------------------------------------------------------------
(* Claims about the report builders *)

Returned == pc = "done"

\* The document a build returned: the last thing written to the bytes
ReturnedDoc == result.bytes[Len(result.bytes)]

HasPara(blocks, tokens) ==
    \E i \in DOMAIN blocks : blocks[i].k = "Paragraph" /\ blocks[i].c = tokens

ParaMentions(blocks, s) ==
    \E i \in DOMAIN blocks :
        blocks[i].k = "Paragraph" /\ \E j \in DOMAIN blocks[i].c : blocks[i].c[j] = s

TablesOf(blocks) == {i \in DOMAIN blocks : blocks[i].k = "Table"}

RatingTablesOf(blocks) ==
    {i \in TablesOf(blocks) : blocks[i].c[1][2] = <<"Rating">>}

\* C1: build_player_report and build_group_report always finish by returning
\* a byte string, whatever the image, font, shaping and layout steps do.
C1_AlwaysReturnsBytes == Returned => result.kind = "bytes"

\* C2: a photo that is set and raises on every resolution path never makes
\* the resolution chain propagate an exception out of the build.
C2_PhotoErrorsAbsorbed ==
    (Returned /\ photo.set /\ photo.allRaised) =>
        result.from \notin {"photo.path", "photo.url"}

\* C3: after an OSError of the layout engine the returned bytes hold only
\* the fallback document, and nothing the failed build wrote to its buffer.
C3_FallbackDiscardsPartialOutput ==
    (Returned /\ result.kind = "bytes" /\ result.from = "fallback") =>
        /\ Len(result.bytes) = 1
        /\ \A i \in DOMAIN result.bytes : result.bytes[i] # PartialOutput

NoEvaluationPara == <<"No evaluation available.">>

\* The average line, the attendance line or the notes
OverallLines(blocks) ==
    \/ ParaMentions(blocks, "Average Level")
    \/ ParaMentions(blocks, "Attendance and punctuality")
    \/ ParaMentions(blocks, "Notes: ")

PlayerDocReturned ==
    Returned /\ report.kind = "player" /\ result.kind = "bytes"

\* C6 (as amended): when the layout of the player report succeeds, a player
\* without a latest evaluation gets the placeholder and no rating table,
\* average line, attendance line or notes, and a player with one gets the
\* four rating tables and no placeholder; when the layout raises OSError the
\* returned fallback document has neither the placeholder nor any table.
C6_EvaluationSection ==
    PlayerDocReturned =>
        LET blocks == ReturnedDoc.story
        IN  /\ result.bytes # <<>>
            /\ (result.from = "build" /\ ev = None) =>
                    /\ HasPara(blocks, NoEvaluationPara)
                    /\ RatingTablesOf(blocks) = {}
                    /\ ~OverallLines(blocks)
            /\ (result.from = "build" /\ ev # None) =>
                    /\ Cardinality(RatingTablesOf(blocks)) = 4
                    /\ ~HasPara(blocks, NoEvaluationPara)
            /\ result.from = "fallback" =>
                    /\ ~HasPara(blocks, NoEvaluationPara)
                    /\ TablesOf(blocks) = {}

\* C6 as claimed: every returned player report has the placeholder and no
\* rating table when there is no evaluation, and the four rating tables and
\* no placeholder when there is one.
C6_EvaluationSectionAlways ==
    PlayerDocReturned =>
        LET blocks == ReturnedDoc.story
        IN  /\ ev = None =>
                    /\ HasPara(blocks, NoEvaluationPara)
                    /\ RatingTablesOf(blocks) = {}
                    /\ ~OverallLines(blocks)
            /\ ev # None =>
                    /\ Cardinality(RatingTablesOf(blocks)) = 4
                    /\ ~HasPara(blocks, NoEvaluationPara)

\* A player without evaluation whose full report was laid out
C6_Witness ==
    PlayerDocReturned /\ result.from = "build" /\ ev = None

GroupDocReturned ==
    Returned /\ report.kind = "group" /\ result.kind = "bytes"

\* The summary table is the last block of the group report
SummaryRows(blocks) == blocks[Len(blocks)].c

\* One header row, then one row per player in the order of the query
OneRowPerPlayer(rows) ==
    /\ Len(rows) = Len(report.players) + 1
    /\ rows[1] = HeaderRow
    /\ \A i \in DOMAIN report.players :
            rows[i + 1][2] = <<Name(report.players[i])>>

\* C7 (as amended): when the layout of the group report succeeds, its
\* summary table has one header row and exactly N data rows, one per player
\* in the query's order, whatever photo resolution and evaluation lookup
\* gave; when the layout raises OSError the returned fallback document has
\* no table.
C7_SummaryRows ==
    GroupDocReturned =>
        LET blocks == ReturnedDoc.story
        IN  /\ result.from = "build" =>
                    /\ blocks[Len(blocks)].k = "Table"
                    /\ Cardinality(TablesOf(blocks)) = 2
                    /\ OneRowPerPlayer(SummaryRows(blocks))
            /\ result.from = "fallback" => TablesOf(blocks) = {}

\* C7 as claimed: every returned group report has the summary table with
\* N data rows and one header row, whatever the outcome of the layout.
C7_SummaryRowsAlways ==
    GroupDocReturned =>
        LET blocks == ReturnedDoc.story
        IN  /\ blocks[Len(blocks)].k = "Table"
            /\ OneRowPerPlayer(SummaryRows(blocks))

\* A group of MaxPlayers players whose full report was laid out
C7_Witness ==
    /\ GroupDocReturned /\ result.from = "build"
    /\ Len(report.players) = MaxPlayers

SourceOrder == <<"storage", "path", "http">>

\* C9: the sources of a set photo are tried in the order storage, path,
\* HTTP, each at most once; a later one only after the earlier ones gave no
\* image, none after an image was found; the HTTP fetch only with a base
\* URL configured and a url that starts with "/".
C9_ResolutionOrder ==
    /\ \E n \in 0..3 : photo.attempts = SubSeq(SourceOrder, 1, n)
    /\ ~photo.set => photo.attempts = <<>>
    /\ pc = "path" => photo.attempts = <<"storage">> /\ photo.img = "None"
    /\ pc = "url" => photo.attempts = <<"storage", "path">> /\ photo.img = "None"
    /\ (pc = "row" /\ photo.set /\ photo.img = "None") =>
            Len(photo.attempts) >= 2
    /\ Len(photo.attempts) = 3 =>
            \E base \in Bases \ {<<>>} :
                photo.fetched = JoinedUrl(base, RelativeUrl)
    /\ Len(photo.attempts) < 3 => photo.fetched = <<>>

\* The third source gave the image after the first two gave none
C9_Witness ==
    /\ pc = "row" /\ photo.attempts = SourceOrder /\ photo.img = "Image"

---------------------------------------------------------------------------
(* Claims about repeated calls *)

Builders == {"build_player_report", "build_group_report"}

\* C11: a builder called twice in a row on unchanged input in an unchanged
\* environment gives the same result both times, whatever the first call
\* left in the font registry and on the photo fields.
C11_RepeatSameContent ==
    call.fn \in Builders => call.out[1] = call.out[2]

\* The first call registered the font and the second found it registered,
\* and both returned the full document
C11_Witness ==
    /\ call.fn = "build_player_report"
    /\ call.arg[2] = {} /\ registered = {"ArabicFont"}
    /\ fontLog.was /\ fontLog.probed = 0
    /\ call.out[2].kind = "bytes" /\ call.out[2].from = "build"
    /\ call.arg[1].photo.set

---------------------------------------------------------------------------
(* Claims about the stored entities and the storage *)

\* C12: the report builders only read: on the normal path and on every
\* fallback path the Player rows and the photo blobs in the store stay as
\* they were.
C12_StoreOnlyRead == store = InitialStore

\* A build that read a photo through the storage and returned the fallback
\* document
C12_Witness ==
    /\ Returned /\ result.kind = "bytes" /\ result.from = "fallback"
    /\ photo.set /\ ~photo.allRaised

---------------------------------------------------------------------------
(* Claims about the settings *)

Postgres == "django.db.backends.postgresql"

AnyUrl(e) == \E i \in DOMAIN UrlNames : Truthy(e[UrlNames[i]])

\* The first of the three connection strings that qualifies under has
FirstUrlName(e, has(_)) ==
    UrlNames[CHOOSE i \in DOMAIN UrlNames :
                /\ has(e[UrlNames[i]])
                /\ \A j \in 1..(i - 1) : ~has(e[UrlNames[j]])]

\* The database chosen by the fixed priority, a variable counting as given
\* when has holds of it
ByPriority(e, out, has(_)) ==
    IF \E i \in DOMAIN UrlNames : has(e[UrlNames[i]])
    THEN /\ out.ENGINE = Postgres
         /\ out.NAME = <<"db-" \o FirstUrlName(e, has)>>
         /\ out.HOST = <<"host-" \o FirstUrlName(e, has)>>
    ELSE IF has(e["PGDATABASE"])
    THEN /\ out.ENGINE = Postgres
         /\ out.NAME = e["PGDATABASE"].v
         /\ out.HOST = getenv(e, "PGHOST", <<"localhost">>)
    ELSE IF has(e["DB_NAME"])
    THEN /\ out.ENGINE = Postgres
         /\ out.NAME = e["DB_NAME"].v
         /\ out.HOST = getenv(e, "DB_HOST", <<"localhost">>)
    ELSE out.ENGINE = "django.db.backends.sqlite3"

\* C13 (as amended): the database is chosen by the fixed priority
\* connection string, PG* variables, DB_* variables, SQLite, where a
\* variable counts only when it is set to a non-empty value; exactly one
\* branch is taken and a lower source never overrides a higher non-empty one.
C13_DatabasePriority ==
    call.fn = "DATABASES" => ByPriority(call.arg, call.out, Truthy)

\* C13 as claimed: PGDATABASE and DB_NAME count as soon as they are set,
\* the empty string included.
C13_DatabasePrioritySet ==
    call.fn = "DATABASES" =>
        /\ AnyUrl(call.arg) => ByPriority(call.arg, call.out, Truthy)
        /\ ~AnyUrl(call.arg) =>
                /\ call.arg["PGDATABASE"].set =>
                        call.out.NAME = call.arg["PGDATABASE"].v
                /\ (~call.arg["PGDATABASE"].set /\ call.arg["DB_NAME"].set) =>
                        call.out.NAME = call.arg["DB_NAME"].v

\* PGDATABASE is set to the empty string and DB_NAME to a value: the DB_*
\* variables are used
C13_Witness ==
    /\ call.fn = "DATABASES"
    /\ ~AnyUrl(call.arg)
    /\ call.arg["PGDATABASE"] = EmptyString
    /\ Truthy(call.arg["DB_NAME"])
    /\ call.out.NAME = call.arg["DB_NAME"].v

---------------------------------------------------------------------------
(* Claims about the overall-average line *)

Contains(tokens, s) == \E i \in DOMAIN tokens : tokens[i] = s

\* C14: for every present average the overall-average line shows the label
\* rating_label_from_average gives, followed by that label's Arabic
\* translation; it shows the "unknown" marker only for an absent average.
C14_AverageLineShowsLabel ==
    call.fn = "rating_bilingual_html_from_average" =>
        IF call.arg = None THEN Contains(call.out, EmDash)
        ELSE /\ Contains(call.out, rating_label_from_average(call.arg))
             /\ Contains(call.out,
                         ShapeArabic(Ar(rating_label_from_average(call.arg)),
                                     shaping))
             /\ ~Contains(call.out, EmDash)

---------------------------------------------------------------------------
(* Claims about the latest evaluation *)

Later(a, b) ==
    \/ a.evaluated_at > b.evaluated_at
    \/ a.evaluated_at = b.evaluated_at /\ a.updated_at > b.updated_at

HasNewest(q) == q.lookup = "ok" /\ q.evs # {}
Newest(q) == CHOOSE e \in q.evs : \A o \in q.evs \ {e} : Later(e, o)

\* C15: _latest_evaluation returns an evaluation of the player that no other
\* evaluation of the player is later than (a later evaluated_at, or an equal
\* evaluated_at and a later updated_at), and None when the player has no
\* evaluations, no evaluations relation or the lookup raises; the group
\* row shows the label of that evaluation's average and the player report
\* is made from that evaluation's ratings.
C15_LatestEvaluation ==
    /\ call.fn = "_latest_evaluation" =>
            IF HasNewest(call.arg)
            THEN /\ call.out[1] \in call.arg.evs
                 /\ \A o \in call.arg.evs : ~Later(o, call.out[1])
            ELSE call.out[1] = None
    /\ call.fn = "build_group_report" =>
            call.out[4] =
                IF HasNewest(call.arg)
                THEN <<rating_label_from_average(
                          StoredEvaluation(Newest(call.arg)).average_rating)>>
                ELSE <<"-">>
    /\ call.fn = "build_player_report" =>
            IF HasNewest(call.arg)
            THEN \A i \in DOMAIN call.out :
                    call.out[i].k = "Table" =>
                        \A j \in 2..Len(call.out[i].c) :
                            Contains(call.out[i].c[j][2],
                                     rating_label(StoredEvaluation(
                                         Newest(call.arg)).ratings["Passing"]))
            ELSE call.out = <<Para(<<"No evaluation available.">>)>>

\* Two evaluations made at the same time, one edited later, and the report
\* made from them
C15_Witness ==
    /\ call.fn = "build_player_report"
    /\ \E a, b \in call.arg.evs :
            a.evaluated_at = b.evaluated_at /\ a.updated_at < b.updated_at
    /\ \E i \in DOMAIN call.out : call.out[i].k = "Table"

---------------------------------------------------------------------------
(* Claims about storage handles *)

\* C16: whenever _image_from_field has opened a photo field, the field is
\* closed again before it returns, whether the read succeeds, the read
\* raises or the bytes are not a decodable image: at no point between the
\* steps of a report build, and after no sequence of builds, is a photo
\* field open.
C16_NoFieldLeftOpen == opened = {}

\* The field was opened and read, and its bytes were not a decodable image
C16_Witness ==
    /\ photo.set
    /\ photo.attempts = <<"storage">>
    /\ ~photo.allRaised
    /\ photo.img = "None"
    /\ opened = {}
    /\ result # NoResult

===========================================================================
